---- MODULE Spec2Model ----
(***************************************************************************)
(* Gym Coach Platform API (src/main.py, src/schemas.py).                   *)
(*                                                                         *)
(* The state is the document store behind the handle `db` (one sequence of *)
(* documents per collection, in insertion order), the store's id           *)
(* generator, and the response to the request handled last.  Every request *)
(* handler of src/main.py is one action; its inputs are request bodies     *)
(* that already passed the pydantic validation of src/schemas.py.          *)
(*                                                                         *)
(* Strings that carry identifiers are records [kind, n, upper]:            *)
(*   kind = "hex"   the 24-digit hex form of ObjectId n, in lower case     *)
(*                  (upper = FALSE) or with its letters in upper case      *)
(*                  (upper = TRUE); bson's ObjectId() accepts both and     *)
(*                  str() yields the lower-case form;                      *)
(*   kind = "text"  a string that is no ObjectId;                          *)
(*   kind = "empty" the string "";                                         *)
(*   kind = "none"  Python's None.                                         *)
(***************************************************************************)
EXTENDS Integers, Sequences, FiniteSets, TLC

VARIABLES db, store, nextId, last, pending

vars == <<db, store, nextId, last, pending>>

\* ---------------------------------------------------------------- bounds
\* Documents stored in a run of the relationship handlers (SpecLink), of the
\* whole API (Spec) and of concurrent signups (SpecConc); concurrent
\* workers; the largest limit a list request carries.
MaxLinkDocs == 4
MaxDocs == 3
MaxConcDocs == 3
NumWorkers == 2
MaxLimit == 2

\* ---------------------------------------------------------------- values
Hex(n, up) == [kind |-> "hex", n |-> n, upper |-> up]
Malformed == [kind |-> "text", n |-> 0, upper |-> FALSE]
EmptyStr == [kind |-> "empty", n |-> 0, upper |-> FALSE]
None == [kind |-> "none", n |-> 0, upper |-> FALSE]

Conversations == {"1_2", "1_3"}
Collections == {"user", "workoutplan", "mealplan", "message", "dailylog"}

\* Identifier strings a caller can send: the canonical form of every id the
\* store has handed out and of the id it hands out next (well-formed, of no
\* document yet), the upper-case spelling of the first id, and a string
\* that is no ObjectId.
IdArgs == {Hex(n, FALSE) : n \in 1..nextId} \cup {Hex(1, TRUE), Malformed}

\* The identifiers of the first two documents, the first in both spellings.
FirstIds == {Hex(1, FALSE), Hex(1, TRUE), Hex(2, FALSE)}

\* Python truthiness of an Optional[str].
Truthy(s) == s.kind \notin {"none", "empty"}

\* str(ObjectId): the lower-case hex form.
str(n) == Hex(n, FALSE)

\* oid(id_str) raises HTTPException(400) unless ObjectId() accepts id_str.
ValidId(id_str) == id_str.kind = "hex"
oid(id_str) == id_str.n

\* ------------------------------------------------------------- responses
Response(op, status, detail, id, items) ==
    [op |-> op, status |-> status, detail |-> detail, id |-> id, items |-> items]

Ok(op, id) == Response(op, 200, "", id, <<>>)
Listed(op, items) == Response(op, 200, "", None, items)
HTTPException(op, status, detail) == Response(op, status, detail, None, <<>>)
\* An exception no handler catches: the framework answers 500.
ServerError(op) == Response(op, 500, "Internal Server Error", None, <<>>)
StorageUnavailable(op) == Response(op, 503, "StorageUnavailable", None, <<>>)

\* ----------------------------------------------------------------- store
Min(S) == CHOOSE x \in S : \A y \in S : x <= y

\* Equality filter of a query: every field of q is in the document with
\* that value.
Matches(doc, q) == \A k \in DOMAIN q : k \in DOMAIN doc /\ doc[k] = q[k]

\* db[coll].find_one(q): the first document of the collection that matches,
\* as its index, 0 for None.
FindOne(coll, q) ==
    LET hits == {i \in DOMAIN store[coll] : Matches(store[coll][i], q)}
    IN  IF hits = {} THEN 0 ELSE Min(hits)

RECURSIVE Select(_, _)
Select(docs, q) ==
    IF docs = <<>> THEN <<>>
    ELSE IF Matches(Head(docs), q) THEN <<Head(docs)>> \o Select(Tail(docs), q)
    ELSE Select(Tail(docs), q)

Truncate(docs, limit) ==
    IF Len(docs) > limit THEN SubSeq(docs, 1, limit) ELSE docs

\* create_document: the collection with the document stored under a fresh id.
Inserted(coll, data) ==
    [store EXCEPT ![coll] = Append(@, ("_id" :> nextId) @@ data)]

\* get_documents without a limit.
get_documents(coll, q) == Select(store[coll], q)

\* Mutant: the identifier is copied to "id" and "_id" is left in place.
CopyId(doc) ==
    [k \in DOMAIN doc \cup {"id"} |-> IF k = "id" THEN str(doc["_id"]) ELSE doc[k]]

\* i["id"] = str(i.pop("_id"))
RenameId(doc) ==
    [k \in (DOMAIN doc \ {"_id"}) \cup {"id"} |->
        IF k = "id" THEN str(doc["_id"]) ELSE doc[k]]

RenameAll(items) == [i \in DOMAIN items |-> RenameId(items[i])]

\* ------------------------------------------------------------------ Init
Idle == [busy |-> FALSE, name |-> "", email |-> "", role |-> "", trainer_id |-> None]

\* The process starts with or without a store connection (db is None when
\* the connection string is absent) and keeps that for its lifetime.
Init ==
    /\ db \in BOOLEAN
    /\ store = [c \in Collections |-> <<>>]
    /\ nextId = 1
    /\ last = Response("start", 200, "", None, <<>>)
    /\ pending = [w \in 1..NumWorkers |-> Idle]

\* A process whose store connection was established at startup.
InitConnected == Init /\ db

\* ----------------------------------------------------------------- users
\* Validated request bodies of POST /api/users (schemas.User; the optional
\* fields no handler reads are left out).
Body(name, email, role, trainer_id) ==
    [name |-> name, email |-> email, role |-> role, trainer_id |-> trainer_id]

\* A trainer, a client, a signup under the client's email with another name
\* and role (a second trainer), and a client that signs up with its trainer
\* reference already filled in, as the upper-case spelling of the first id.
Signups ==
    { Body("Ann", "a@x.com", "trainer", None),
      Body("Cy", "c@x.com", "client", None),
      Body("Dee", "c@x.com", "trainer", None),
      Body("Eve", "e@x.com", "client", Hex(1, TRUE)) }

\* The signups of a run of the whole API: a trainer, a client, and a client
\* that names the first id as its trainer.
Roster == {u \in Signups : u.name \in {"Ann", "Cy", "Eve"}}

Emails == {u.email : u \in Signups} \cup {"z@x.com"}

\* Mutant: the existence check looks at the first user document only.
EmailTakenByFirst(email) ==
    store["user"] # <<>> /\ store["user"][1].email = email

\* db["user"].find_one({"email": user.email})
EmailTaken(email) == FindOne("user", [email |-> email]) # 0

create_user(user) ==
    /\ UNCHANGED <<db, pending>>
    /\ IF ~db
       THEN /\ last' = ServerError("create_user")
            /\ UNCHANGED <<store, nextId>>
       ELSE IF EmailTaken(user.email)
       THEN /\ last' = HTTPException("create_user", 400, "Email already exists")
            /\ UNCHANGED <<store, nextId>>
       ELSE /\ store' = Inserted("user", user)
            /\ nextId' = nextId + 1
            /\ last' = Ok("create_user", str(nextId))

\* ------------------------------------------------------------ connection
\* Mutant: the lookup by id leaves the role out of the query.
UserOfAnyRole(id_str, role) ==
    FindOne("user", "_id" :> oid(id_str))

\* db["user"].find_one({"_id": oid(id_str), "role": role})
UserWithRole(id_str, role) ==
    FindOne("user", ("_id" :> oid(id_str)) @@ [role |-> role])

\* Mutant: the lookup by email leaves the role out of the query.
AnyoneByEmail(client_email) ==
    FindOne("user", [email |-> client_email])

\* db["user"].find_one({"email": client_email, "role": "client"})
ClientByEmail(client_email) ==
    FindOne("user", [email |-> client_email, role |-> "client"])

\* Mutant: the link stores the request's string instead of the trainer's id.
RequestedRef(trainer_id, trainer) == trainer_id

\* {"$set": {"trainer_id": str(trainer["_id"])}}
LinkedRef(trainer_id, trainer) == str(store["user"][trainer]["_id"])

\* The response of a connect request in the current state.
connect_response(trainer_id, client_email) ==
    IF ~db
    THEN ServerError("connect_client")
    ELSE IF ~ValidId(trainer_id)
    THEN HTTPException("connect_client", 400, "Invalid ID format")
    ELSE IF UserWithRole(trainer_id, "trainer") = 0
    THEN HTTPException("connect_client", 404, "Trainer not found")
    ELSE IF ClientByEmail(client_email) = 0
    THEN HTTPException("connect_client", 404, "Client not found")
    ELSE Ok("connect_client", None)

connect_client(trainer_id, client_email) ==
    /\ UNCHANGED <<db, nextId, pending>>
    /\ last' = connect_response(trainer_id, client_email)
    /\ IF connect_response(trainer_id, client_email).status = 200
       THEN LET trainer == UserWithRole(trainer_id, "trainer")
                client == ClientByEmail(client_email)
            IN  store' = [store EXCEPT !["user"][client].trainer_id =
                                           LinkedRef(trainer_id, trainer)]
       ELSE UNCHANGED store

\* ----------------------------------------------------------------- plans
Plan(ids, flags) == [trainer_id : ids, client_id : ids, title : {"Push"},
                     is_active : flags]

\* Mutant: any trainer reference on the client passes.
ConnectedToAnyone(plan, trainer, client) ==
    Truthy(store["user"][client].trainer_id)

\* client.get("trainer_id") in (plan.trainer_id, str(trainer["_id"]))
Connected(plan, trainer, client) ==
    store["user"][client].trainer_id \in
        {plan.trainer_id, str(store["user"][trainer]["_id"])}

\* The response of a plan-creation request in the current state.
plan_response(op, plan) ==
    IF ~db
    THEN ServerError(op)
    ELSE IF ~ValidId(plan.trainer_id) \/ ~ValidId(plan.client_id)
    THEN HTTPException(op, 400, "Invalid ID format")
    ELSE IF \/ UserWithRole(plan.trainer_id, "trainer") = 0
            \/ UserWithRole(plan.client_id, "client") = 0
    THEN HTTPException(op, 400, "Invalid trainer or client")
    ELSE IF ~Connected(plan, UserWithRole(plan.trainer_id, "trainer"),
                             UserWithRole(plan.client_id, "client"))
    THEN HTTPException(op, 403, "Client not connected to trainer")
    ELSE Ok(op, str(nextId))

create_plan(op, coll, plan) ==
    /\ UNCHANGED <<db, pending>>
    /\ last' = plan_response(op, plan)
    /\ IF plan_response(op, plan).status = 200
       THEN /\ store' = Inserted(coll, plan)
            /\ nextId' = nextId + 1
       ELSE UNCHANGED <<store, nextId>>

create_workout_plan(plan) == create_plan("create_workout_plan", "workoutplan", plan)

create_meal_plan(plan) == create_plan("create_meal_plan", "mealplan", plan)

\* -------------------------------------------------- messages, daily logs
MessageCreate == [conversation_id : Conversations, sender_id : {"1"},
                  content : {"hi"}]

\* Message(**payload.model_dump()): the payload and the default read = False.
Message(payload) == payload @@ [read |-> FALSE]

LogClients == {str(1), str(2)}

DailyLog == [client_id : LogClients, log_date : {"2024-01-01"},
             calories : {0}]

\* create_document alone: StorageUnavailable without a store connection.
create(op, coll, data) ==
    /\ UNCHANGED <<db, pending>>
    /\ IF ~db
       THEN /\ last' = StorageUnavailable(op)
            /\ UNCHANGED <<store, nextId>>
       ELSE /\ store' = Inserted(coll, data)
            /\ nextId' = nextId + 1
            /\ last' = Ok(op, str(nextId))

send_message(payload) == create("send_message", "message", Message(payload))

add_log(log) == create("add_log", "dailylog", log)

\* ----------------------------------------------------------------- lists
\* An Optional[str] query parameter that is no identifier: <<>> is None,
\* <<s>> the string s.
RoleArgs == {<<>>, <<"">>, <<"trainer">>, <<"client">>}
FilterIds == {None, EmptyStr, str(1), str(2)}
Limits == 1..MaxLimit

NoFields == [k \in {} |-> TRUE]

\* Mutant: the role parameter never reaches the query.
UserQueryAll(role) == NoFields

\* query = {"role": role} if role else {}
UserQuery(role) ==
    IF role # <<>> /\ role[1] # "" THEN [role |-> role[1]] ELSE NoFields

\* q = {"is_active": active}, plus the identifiers that are truthy
PlanQuery(trainer_id, client_id, active) ==
    [is_active |-> active]
        @@ (IF Truthy(trainer_id) THEN [trainer_id |-> trainer_id] ELSE NoFields)
        @@ (IF Truthy(client_id) THEN [client_id |-> client_id] ELSE NoFields)

UserItems(role) == RenameAll(get_documents("user", UserQuery(role)))

PlanItems(coll, trainer_id, client_id, active) ==
    RenameAll(get_documents(coll, PlanQuery(trainer_id, client_id, active)))

MessageItems(conversation_id, limit) ==
    RenameAll(Truncate(get_documents("message",
                  [conversation_id |-> conversation_id]), limit))

LogItems(client_id, limit) ==
    RenameAll(Truncate(get_documents("dailylog", [client_id |-> client_id]), limit))

list(op, items) ==
    /\ UNCHANGED <<db, store, nextId, pending>>
    /\ last' = IF ~db THEN StorageUnavailable(op) ELSE Listed(op, items)

list_users(role) == list("list_users", UserItems(role))

list_workout_plans(trainer_id, client_id, active) ==
    list("list_workout_plans", PlanItems("workoutplan", trainer_id, client_id, active))

list_meal_plans(trainer_id, client_id, active) ==
    list("list_meal_plans", PlanItems("mealplan", trainer_id, client_id, active))

get_messages(conversation_id, limit) ==
    list("get_messages", MessageItems(conversation_id, limit))

list_logs(client_id, limit) == list("list_logs", LogItems(client_id, limit))

\* ----------------------------------------------------- concurrent signup
\* create_user as the two storage round trips it makes, each one step of the
\* worker thread that runs the request: find_one (line 69), then
\* create_document (line 71).
create_user_find(w, user) ==
    /\ ~pending[w].busy
    /\ UNCHANGED <<db, store, nextId>>
    /\ IF ~db
       THEN /\ last' = ServerError("create_user")
            /\ UNCHANGED pending
       ELSE IF EmailTaken(user.email)
       THEN /\ last' = HTTPException("create_user", 400, "Email already exists")
            /\ UNCHANGED pending
       ELSE /\ pending' = [pending EXCEPT ![w] = [busy |-> TRUE] @@ user]
            /\ UNCHANGED last

create_user_insert(w) ==
    /\ pending[w].busy
    /\ UNCHANGED db
    /\ store' = Inserted("user", [k \in DOMAIN pending[w] \ {"busy"} |-> pending[w][k]])
    /\ nextId' = nextId + 1
    /\ last' = Ok("create_user", str(nextId))
    /\ pending' = [pending EXCEPT ![w] = Idle]

\* ------------------------------------------------------------------ Next
\* At most `max` documents are stored in a run.
Bounded(max) == nextId' <= max + 1

\* The whole API, one request at a time.
Next ==
    \/ \E user \in Roster : create_user(user) /\ Bounded(MaxDocs)
    \/ \E trainer_id \in FirstIds, client_email \in {u.email : u \in Roster} :
          connect_client(trainer_id, client_email)
    \/ \E plan \in Plan(FirstIds, BOOLEAN) : create_workout_plan(plan) /\ Bounded(MaxDocs)
    \/ \E plan \in Plan(FirstIds, BOOLEAN) : create_meal_plan(plan) /\ Bounded(MaxDocs)
    \/ \E payload \in MessageCreate : send_message(payload) /\ Bounded(MaxDocs)
    \/ \E log \in DailyLog : add_log(log) /\ Bounded(MaxDocs)
    \/ \E role \in RoleArgs : list_users(role)
    \/ \E trainer_id \in FilterIds, client_id \in FilterIds, active \in BOOLEAN :
          list_workout_plans(trainer_id, client_id, active)
    \/ \E trainer_id \in FilterIds, client_id \in FilterIds, active \in BOOLEAN :
          list_meal_plans(trainer_id, client_id, active)
    \/ \E conversation_id \in Conversations, limit \in Limits :
          get_messages(conversation_id, limit)
    \/ \E client_id \in LogClients, limit \in Limits : list_logs(client_id, limit)

Spec == Init /\ [][Next]_vars

\* The trainer-client relationship: signup, connect and plan creation, in
\* longer runs and with identifiers in every form a caller can send.
NextLink ==
    \/ \E user \in Signups : create_user(user) /\ Bounded(MaxLinkDocs)
    \/ \E trainer_id \in IdArgs, client_email \in Emails :
          connect_client(trainer_id, client_email)
    \/ \E plan \in Plan(IdArgs, {TRUE}) : create_workout_plan(plan) /\ Bounded(MaxLinkDocs)
    \/ \E plan \in Plan(IdArgs, {TRUE}) : create_meal_plan(plan) /\ Bounded(MaxLinkDocs)

SpecLink == InitConnected /\ [][NextLink]_vars

\* Signups handled concurrently by the worker threads of the host.
NextConc ==
    \/ \E w \in 1..NumWorkers, user \in Signups : create_user_find(w, user)
    \/ \E w \in 1..NumWorkers : create_user_insert(w) /\ Bounded(MaxConcDocs)

SpecConc == InitConnected /\ [][NextConc]_vars

\* ================================================================ claims
Users == DOMAIN store["user"]
Trainers == {i \in Users : store["user"][i].role = "trainer"}
Clients == {i \in Users : store["user"][i].role = "client"}
PlanCollections == {"workoutplan", "mealplan"}
PlanOps == {"create_workout_plan", "create_meal_plan"}

\* The id the API reports for user i.
IdOf(i) == str(store["user"][i]["_id"])

\* s spells the id of a stored trainer / client.
IsTrainerId(s) == ValidId(s) /\ \E i \in Trainers : store["user"][i]["_id"] = oid(s)
IsClientId(s) == ValidId(s) /\ \E i \in Clients : store["user"][i]["_id"] = oid(s)
IsClientEmail(e) == \E i \in Clients : store["user"][i].email = e

PlanBody(t, c) == [trainer_id |-> t, client_id |-> c, title |-> "Push", is_active |-> TRUE]

\* A step of the named handler (the test of last'.op comes first only to
\* spare the evaluation of the handler on the steps of the other handlers).
PlanStep(plan) ==
    \/ last'.op = "create_workout_plan" /\ create_workout_plan(plan)
    \/ last'.op = "create_meal_plan" /\ create_meal_plan(plan)

ConnectStep(trainer_id, client_email) ==
    last'.op = "connect_client" /\ connect_client(trainer_id, client_email)

UserStep(user) == last'.op = "create_user" /\ create_user(user)

\* No document of any collection carries the id n.
FreshId(n) == \A coll \in Collections : \A i \in DOMAIN store[coll] : store[coll][i]["_id"] # n

\* ---- C1
C1Step ==
    \A t \in Trainers, c \in Clients :
        LET plan == PlanBody(IdOf(t), IdOf(c))
        IN  (store["user"][c].trainer_id # IdOf(t) /\ PlanStep(plan))
                => /\ last'.status = 403
                   /\ last'.detail = "Client not connected to trainer"
                   /\ store' = store

\* C1: for a stored trainer T and a stored client C whose trainer_id is not
\* T's id, create_workout_plan and create_meal_plan with (T.id, C.id) answer
\* 403 NotConnected and insert nothing.
C1_NotConnectedRejected == [][C1Step]_vars

C1_Witness ==
    /\ last.op \in {"create_workout_plan", "create_meal_plan"}
    /\ last.status = 403
    /\ \E t \in Trainers, c \in Clients : store["user"][c].trainer_id # IdOf(t)
    /\ \A coll \in PlanCollections : store[coll] = <<>>

\* ---- C2
C2Connect ==
    (last'.op = "connect_client" /\ last'.status = 200) =>
        \A t \in Trainers, c \in Clients, trainer_id \in IdArgs :
            ( /\ ValidId(trainer_id)
              /\ oid(trainer_id) = store["user"][t]["_id"]
              /\ connect_client(trainer_id, store["user"][c].email) )
                => /\ store'["user"][c].trainer_id = IdOf(t)
                   /\ \A op \in PlanOps :
                          (plan_response(op, PlanBody(IdOf(t), IdOf(c))).status = 200)'

C2Create ==
    last'.op \in PlanOps =>
        \A t \in Trainers, c \in Clients :
            LET plan == PlanBody(IdOf(t), IdOf(c))
                Stored(coll) ==
                    /\ last'.status = 200
                    /\ last'.id = str(nextId)
                    /\ FreshId(nextId)
                    /\ store' = [store EXCEPT ![coll] = Append(@, ("_id" :> nextId) @@ plan)]
            IN  store["user"][c].trainer_id = IdOf(t)
                    => /\ Stored("workoutplan") \/ ~create_workout_plan(plan)
                       /\ Stored("mealplan") \/ ~create_meal_plan(plan)

\* C2: once connect_client(T.id, C.email) has answered "connected", C's
\* trainer_id is T's id and plan creation with (T.id, C.id) is accepted; a
\* plan created for a client linked to T this way is stored as a new document
\* whose id is returned.
C2_ConnectThenPlan == [][C2Connect /\ C2Create]_vars

\* A plan request that succeeded for a client whose link (the canonical id
\* string of its trainer) can only come from connect_client.
C2_Witness ==
    /\ last.op = "create_workout_plan"
    /\ last.status = 200
    /\ \E t \in Trainers, c \in Clients, i \in DOMAIN store["workoutplan"] :
          /\ store["user"][c].trainer_id = IdOf(t)
          /\ store["workoutplan"][i] = ("_id" :> oid(last.id)) @@ PlanBody(IdOf(t), IdOf(c))

\* ---- C3
C3Step ==
    \A user \in Signups :
        UserStep(user) =>
            IF \E i \in Users : store["user"][i].email = user.email
            THEN /\ last'.status = 400
                 /\ last'.detail = "Email already exists"
                 /\ store' = store
            ELSE /\ last'.status = 200
                 /\ last'.id = str(nextId)
                 /\ FreshId(nextId)
                 /\ store' = [store EXCEPT !["user"] = Append(@, ("_id" :> nextId) @@ user)]

\* C3: create_user with the email of a stored user answers 400
\* DuplicateEmail, whatever the name and role of the request, and leaves the
\* user collection as it was; with an email no stored user has it inserts
\* exactly one user document and returns its id.
C3_DuplicateEmailRejected == [][C3Step]_vars

C3_Witness ==
    /\ last.op = "create_user"
    /\ last.status = 400
    /\ \E i \in Users : store["user"][i].email = "c@x.com"
    /\ Len(store["user"]) >= 2

\* ---- C5
SameId(a, b) == ValidId(a) /\ ValidId(b) /\ oid(a) = oid(b)

\* C5 as claimed: in every reachable state the client of every stored plan
\* has a trainer_id that is the plan's trainer_id (identifiers compared as
\* ids, whatever their spelling).
C5_PlansFollowLink ==
    \A coll \in PlanCollections : \A i \in DOMAIN store[coll] :
        \E c \in Users :
            /\ store["user"][c]["_id"] = oid(store[coll][i].client_id)
            /\ SameId(store["user"][c].trainer_id, store[coll][i].trainer_id)

C5Step ==
    \A coll \in PlanCollections :
        Len(store'[coll]) > Len(store[coll]) =>
            LET P == store'[coll][Len(store'[coll])]
            IN  /\ IsTrainerId(P.trainer_id)
                /\ \E c \in Clients :
                      /\ store["user"][c]["_id"] = oid(P.client_id)
                      /\ store["user"][c].trainer_id
                             \in {P.trainer_id, str(oid(P.trainer_id))}
                      /\ store'["user"][c] = store["user"][c]

\* C5 (amended): at the moment a plan is stored, its client_id is the id of a
\* stored client whose trainer_id is the plan's trainer_id or the canonical id
\* string of the stored trainer that trainer_id spells.
C5_LinkedWhenStored == [][C5Step]_vars

\* A plan was just stored under the upper-case spelling of its trainer's id
\* for a client whose trainer_id is the canonical string.
C5_Witness ==
    /\ last.op \in PlanOps
    /\ last.status = 200
    /\ \E coll \in PlanCollections : \E i \in DOMAIN store[coll] : \E c \in Clients :
          /\ store[coll][i]["_id"] = oid(last.id)
          /\ store["user"][c]["_id"] = oid(store[coll][i].client_id)
          /\ store[coll][i].trainer_id.upper
          /\ store["user"][c].trainer_id = str(oid(store[coll][i].trainer_id))

\* ---- C6
C6Case(plan) == ~(IsTrainerId(plan.trainer_id) /\ IsClientId(plan.client_id))

\* A refused plan request stores nothing.
RefusedPlanStoresNothing ==
    (last'.op \in PlanOps /\ last'.status # 200) => store' = store

C6Original ==
    \A plan \in Plan(IdArgs, {TRUE}) :
        (C6Case(plan) /\ PlanStep(plan))
            => /\ last'.status = 400
               /\ last'.detail = "Invalid trainer or client"
               /\ store' = store

\* C6 as claimed: a plan whose trainer_id is not the id of a stored trainer, or
\* whose client_id is not the id of a stored client, is answered 400
\* InvalidParty and nothing is stored.
C6_InvalidParty == [][C6Original]_vars

C6Amended ==
    \A plan \in Plan(IdArgs, {TRUE}), op \in PlanOps :
        C6Case(plan) =>
            plan_response(op, plan) =
                HTTPException(op, 400,
                    IF ValidId(plan.trainer_id) /\ ValidId(plan.client_id)
                    THEN "Invalid trainer or client"
                    ELSE "Invalid ID format")

\* C6 (amended): such a request is answered 400 and stores nothing, before
\* the connection check and so never 403: InvalidId when one of the two
\* identifiers is malformed, InvalidParty when both are well-formed.
C6_InvalidPartyOrId == []C6Amended /\ [][RefusedPlanStoresNothing]_vars

\* A request with the ids swapped was just refused.
C6_Witness ==
    /\ last.op \in {"create_workout_plan", "create_meal_plan"}
    /\ last.status = 400
    /\ last.detail = "Invalid trainer or client"
    /\ Trainers # {} /\ Clients # {}

\* ---- C7
C7Case(trainer_id, client_email) ==
    ~IsTrainerId(trainer_id) \/ ~IsClientEmail(client_email)

\* A refused connect request modifies nothing.
RefusedConnectModifiesNothing ==
    (last'.op = "connect_client" /\ last'.status # 200) => store' = store

C7Original ==
    \A trainer_id \in IdArgs, client_email \in Emails :
        (C7Case(trainer_id, client_email) /\ ConnectStep(trainer_id, client_email))
            => last'.status = 404 /\ store' = store

\* C7 as claimed: connect_client answers 404 NotFound when trainer_id is not
\* the id of a stored trainer or client_email is not the email of a stored
\* client, and modifies no user document.
C7_NotFound == [][C7Original]_vars

C7Amended ==
    \A trainer_id \in IdArgs, client_email \in Emails :
        C7Case(trainer_id, client_email) =>
            LET r == connect_response(trainer_id, client_email)
            IN  IF ValidId(trainer_id)
                THEN r.status = 404 /\ r.detail \in {"Trainer not found", "Client not found"}
                ELSE r = HTTPException("connect_client", 400, "Invalid ID format")

\* C7 (amended): in those cases connect_client modifies no user document and
\* answers 404 NotFound when trainer_id is a well-formed identifier, 400
\* InvalidId when it is malformed.
C7_NotFoundOrInvalidId == []C7Amended /\ [][RefusedConnectModifiesNothing]_vars

\* A connect request for a stored trainer and an email of no client was
\* just refused.
C7_Witness ==
    /\ last.op = "connect_client"
    /\ last.status = 404
    /\ last.detail = "Client not found"
    /\ Trainers # {}

\* ---- C4
\* C4: no two stored user documents have the same email, also when signups
\* run concurrently.
C4_EmailsUnique ==
    \A i \in Users, j \in Users :
        i # j => store["user"][i].email # store["user"][j].email

\* ---- C8
Items(seq) == {seq[i] : i \in DOMAIN seq}
\* Whether a filter parameter counts as given: any value but None, or
\* (nonempty) any value but None and the empty string.
GivenRole(role, nonempty) == role # <<>> /\ (nonempty => role[1] # "")
GivenId(id, nonempty) == id # None /\ (nonempty => id # EmptyStr)
AllFilterIds == FilterIds \cup FirstIds

\* Every item is a stored document of the collection under its "id".
FromStore(items, coll) ==
    \A item \in Items(items) : \E i \in DOMAIN store[coll] : item = RenameId(store[coll][i])

C8Users(nonempty) ==
    \A role \in RoleArgs :
        /\ FromStore(UserItems(role), "user")
        /\ GivenRole(role, nonempty) =>
              \A item \in Items(UserItems(role)) : item.role = role[1]
        /\ ~GivenRole(role, nonempty) => UserItems(role) = RenameAll(store["user"])

C8Plans(nonempty) ==
    \A coll \in PlanCollections, trainer_id \in AllFilterIds, client_id \in AllFilterIds,
       active \in BOOLEAN :
        LET items == PlanItems(coll, trainer_id, client_id, active)
        IN  /\ FromStore(items, coll)
            /\ \A item \in Items(items) :
                  /\ item.is_active = active
                  /\ GivenId(trainer_id, nonempty) => item.trainer_id = trainer_id
                  /\ GivenId(client_id, nonempty) => item.client_id = client_id
            /\ (~GivenId(trainer_id, nonempty) /\ ~GivenId(client_id, nonempty)) =>
                  items = RenameAll(Select(store[coll], [is_active |-> active]))

C8Limited ==
    /\ \A conversation_id \in Conversations, limit \in Limits :
          LET items == MessageItems(conversation_id, limit)
          IN  /\ FromStore(items, "message")
              /\ \A item \in Items(items) : item.conversation_id = conversation_id
    /\ \A client_id \in LogClients, limit \in Limits :
          LET items == LogItems(client_id, limit)
          IN  /\ FromStore(items, "dailylog")
              /\ \A item \in Items(items) : item.client_id = client_id

StorageOps ==
    {"create_user", "list_users", "connect_client", "create_workout_plan",
     "list_workout_plans", "create_meal_plan", "list_meal_plans", "send_message",
     "get_messages", "add_log", "list_logs"}

\* C9: without a store connection every storage-dependent endpoint answers
\* 503 StorageUnavailable.
C9_StorageUnavailable ==
    (~db /\ last.op \in StorageOps) => last.status = 503

\* ---- C10
\* items holds the entity under the returned id, field for field.
Holds(items, entity) ==
    \E i \in DOMAIN items : items[i] = entity @@ [id |-> last'.id]

C10Users ==
    (last'.op = "create_user" /\ last'.status = 200) =>
        \A user \in Roster :
            create_user(user) =>
                /\ Holds(UserItems(<<user.role>>)', user)
                /\ Holds(UserItems(<<>>)', user)

C10Plans ==
    (last'.op \in PlanOps /\ last'.status = 200) =>
        \A plan \in Plan(FirstIds, BOOLEAN) :
            /\ create_workout_plan(plan) =>
                  Holds(PlanItems("workoutplan", plan.trainer_id, plan.client_id,
                                  plan.is_active)', plan)
            /\ create_meal_plan(plan) =>
                  Holds(PlanItems("mealplan", plan.trainer_id, plan.client_id,
                                  plan.is_active)', plan)

\* The number of stored documents the filter of a limited list selects.
Selected(coll, q) == Len(get_documents(coll, q))

\* The documents the filter selects after the step are no more than limit.
Fits(coll, q, limit) == Selected(coll, q)' <= limit

C10Limited(within) ==
    /\ (last'.op = "send_message" /\ last'.status = 200) =>
          \A payload \in MessageCreate, limit \in Limits :
              ( /\ send_message(payload)
                /\ within => Fits("message", [conversation_id |-> payload.conversation_id], limit) )
                  => Holds(MessageItems(payload.conversation_id, limit)',
                           payload @@ [read |-> FALSE])
    /\ (last'.op = "add_log" /\ last'.status = 200) =>
          \A log \in DailyLog, limit \in Limits :
              ( /\ add_log(log)
                /\ within => Fits("dailylog", [client_id |-> log.client_id], limit) )
                  => Holds(LogItems(log.client_id, limit)', log)

\* C10 as claimed: an entity inserted through its create endpoint is in the
\* answer of the matching list endpoint called with a filter that selects
\* it, under the returned id and otherwise field for field.
C10_RoundTrip ==
    [][C10Users /\ C10Plans /\ C10Limited(FALSE)]_vars

\* C10 (amended): the same, for get_messages and list_logs provided the
\* documents the filter selects, the new one included, are no more than the
\* limit of the list request.
C10_RoundTripWithinLimit ==
    [][C10Users /\ C10Plans /\ C10Limited(TRUE)]_vars

\* A message was just stored in a conversation that already held one.
C10_Witness ==
    /\ last.op = "send_message"
    /\ last.status = 200
    /\ \E conversation_id \in Conversations :
          /\ Selected("message", [conversation_id |-> conversation_id]) = 2
          /\ \E i \in 1..2 :
                MessageItems(conversation_id, 2)[i].id = last.id

====
